---- MODULE Spec2Model ----
(***************************************************************************)
(* Model of the chip-configuration core of EVAL_UI:                        *)
(*   codes/Analog2Bits.py          An2Bits                                 *)
(*   codes/register_assignment.py  RegisterAssignment, assign_bits         *)
(* A Python dict is a sequence of <<key, value>> entries with unique keys, *)
(* in insertion order.  Python integers are unbounded, as TLA+ integers.   *)
(***************************************************************************)
EXTENDS Integers, Sequences, FiniteSets, TLC

VARIABLES
    gui_dict,      \* the raw GUI values handed to An2Bits
    bit_dict,      \* the mapping handed to RegisterAssignment
    pc,            \* position of the caller: "raw" (before An2Bits), "idle"
                   \* (before RegisterAssignment), "returned" or "raised"
    config_bits,   \* the local register of the last call, index 0..127
    touched,       \* the index ranges the last call assigned, in order
    config_bytes,  \* the list returned by the last call (<<>> if it raised)
    last           \* the previous finished call: its mapping and its outcome

\* One call of serial_transfer_data or serial_reset (register2arduino.py).
\* Time is counted in units of 5 ms from the start of the call.
VARIABLES
    op,            \* "transfer", "reset", or "none" before the first call
    Data,          \* the payload argument of serial_transfer_data
    timeout,       \* the timeout argument, in time units
    spc,           \* position in the call: "idle", "settle", "write", "loop",
                   \* "readline" (blocked in ser.readline()) or "done"
    now,           \* time.time(), relative to the start of the call
    start_time,    \* the local start_time
    deadline,      \* when the blocked ser.readline() gives up
    ser,           \* the port: what was written to it and its input buffer
    peer_lines,    \* how many more lines the peer will send during this call
    response,      \* the local response: the last line read, decoded, stripped
    responses,     \* the local list responses: the non-empty lines read
    result,        \* what the call returned: "True", "False", or "none"
    exit,          \* the return statement the call left by
    prev           \* exit and result of the previous call

\* The event loop of RUN and its worker threads (complete_gui.py).
VARIABLES
    serial_in_progress,         \* the local of RUN that the handlers test
    global_serial_in_progress,  \* the module-level name the worker assigns
    upload_in_progress,         \* the local of RUN the UPLOAD DATA handler tests
    global_upload_in_progress,  \* the module-level name threaded_upload assigns
    event,                      \* the event window.read() returned last
    gui_pc,                     \* the event loop: "read", "guard" or "start"
    worker,                     \* position of each serial worker thread
    uploader,                   \* position of each upload worker thread
    files,                      \* WRITTEN_TO_CHIP.txt and main/main.ino
    log,                        \* how the worker that logged last had ended
    console                     \* number of 'already in progress' messages

core_vars == <<gui_dict, bit_dict, pc, config_bits, touched, config_bytes, last>>
serial_vars == <<op, Data, timeout, spc, now, start_time, deadline, ser,
                 peer_lines, response, responses, result, exit, prev>>
thread_vars == <<serial_in_progress, global_serial_in_progress,
                 upload_in_progress, global_upload_in_progress, event, gui_pc,
                 worker, uploader, files, log, console>>
vars == <<core_vars, serial_vars, thread_vars>>

\* ---------------------------------------------------------------- bounds
MaxValue == 129    \* one-entry mappings hold values -MaxNeg..MaxValue
MaxNeg == 1
MaxPairValue == 1  \* two-entry mappings hold in-range values up to this
MaxNibble == 15    \* values of the two test-select fields in SpecTest
MaxStrLen == 3     \* characters in a raw GUI string of SpecGui
MaxTimeout == 3    \* timeout arguments of a serial call, in units of 5 ms
MaxLines == 2      \* lines the peer sends during one serial call
MaxWorkers == 2    \* worker threads alive at the same time
MaxConsole == 2    \* 'already in progress' messages counted

\* ------------------------------------------------------ program constants
RegisterBits == 128
RegisterBytes == 16
ByteBits == 8
StartDelimiter == 60   \* b'<'
EndDelimiter == 62     \* b'>'
ResetCommand == 82     \* b'R'
PollInterval == 2      \* time.sleep(0.01), in units of 5 ms
SettleDelay == 20      \* time.sleep(0.1), in units of 5 ms
DefaultClock == 100    \* values.get('_CLOCK_FREQ_', '100'), in kHz

\* ------------------------------------------------- no serial call yet
ClosedPort ==
    [is_open |-> FALSE, flushed |-> FALSE, written |-> <<>>, reads |-> 0,
     in_buf |-> <<>>]
NoOutcome == [exit |-> "none", result |-> "none"]
SerialIdle ==
    /\ op = "none"
    /\ Data = <<>>
    /\ timeout = 0
    /\ spc = "idle"
    /\ now = 0
    /\ start_time = 0
    /\ deadline = 0
    /\ ser = ClosedPort
    /\ peer_lines = 0
    /\ response = <<>>
    /\ responses = <<>>
    /\ result = "none"
    /\ exit = "none"
    /\ prev = NoOutcome

\* --------------------------------------------- no GUI event handled yet
Workers == 1..MaxWorkers
NoFiles == [chip |-> <<>>, ino |-> [data |-> <<>>, clk |-> 0]]
ThreadsIdle ==
    /\ serial_in_progress = FALSE
    /\ global_serial_in_progress = FALSE
    /\ upload_in_progress = FALSE
    /\ global_upload_in_progress = FALSE
    /\ event = "none"
    /\ gui_pc = "read"
    /\ worker = [t \in Workers |-> "none"]
    /\ uploader = [t \in Workers |-> "none"]
    /\ files = NoFiles
    /\ log = "none"
    /\ console = 0

\* ------------------------------------------------------------- utilities
Min(a, b) == IF a < b THEN a ELSE b

RECURSIVE Pow2(_)
Pow2(n) == IF n = 0 THEN 1 ELSE 2 * Pow2(n - 1)

\* Python's | on unbounded two's-complement integers.
RECURSIVE BitOr(_, _)
BitOr(a, b) ==
    IF a = 0 THEN b
    ELSE IF b = 0 THEN a
    ELSE IF a = -1 \/ b = -1 THEN -1
    ELSE 2 * BitOr(a \div 2, b \div 2)
         + (IF a % 2 = 1 \/ b % 2 = 1 THEN 1 ELSE 0)

\* Mutants of dict.get: only the first entry is looked at; the default is 1.
DictGetFirst(d, key, default) ==
    IF d # <<>> /\ d[1][1] = key THEN d[1][2] ELSE default
DictGetDefaultOne(d, key, default) ==
    IF \E i \in DOMAIN d : d[i][1] = key
    THEN d[CHOOSE i \in DOMAIN d : d[i][1] = key][2]
    ELSE default + 1

\* dict.get(key, default)
DictGet(d, key, default) ==
    IF \E i \in DOMAIN d : d[i][1] = key
    THEN d[CHOOSE i \in DOMAIN d : d[i][1] = key][2]
    ELSE default

\* ------------------------------------------------- RegisterAssignment
\* Binary digits of n >= 0, most significant first ("0" for 0).
RECURSIVE BinDigits(_)
BinDigits(n) ==
    IF n < 2 THEN <<IF n = 1 THEN "1" ELSE "0">>
    ELSE Append(BinDigits(n \div 2), IF n % 2 = 1 THEN "1" ELSE "0")

ZeroPad(digits, width) ==
    IF Len(digits) >= width THEN digits
    ELSE [i \in 1..(width - Len(digits)) |-> "0"] \o digits

\* f"{value:0{width}b}": the sign, if any, comes first and counts in width.
FormatBinary(value, width) ==
    IF value >= 0 THEN ZeroPad(BinDigits(value), width)
    ELSE <<"-">> \o ZeroPad(BinDigits(-value), width - 1)

\* A run of the function body: the register, a log of the index ranges
\* assigned so far (<<pos, n>>: the n indices pos, pos-1, ... were assigned),
\* and whether a ValueError has been raised.
Positions == 0..(RegisterBits - 1)

Fresh == [bits |-> [b \in Positions |-> 0], log |-> <<>>, raised |-> FALSE]

\* int(bits[i]) of one character of the formatted string
DigitValue(c) == IF c = "1" THEN 1 ELSE 0

\* The loop of assign_bits from index i on: config_bits[start_bit - i] =
\* int(bits[i]); int("-") raises ValueError and ends the call.
RECURSIVE AssignLoop(_, _, _, _, _)
AssignLoop(st, start_bit, bits, width, i) ==
    IF i = width THEN [st EXCEPT !.log = Append(@, <<start_bit, i>>)]
    ELSE IF bits[i + 1] = "-"
    THEN [st EXCEPT !.log = Append(@, <<start_bit, i>>), !.raised = TRUE]
    ELSE AssignLoop([st EXCEPT !.bits[start_bit - i] = DigitValue(bits[i + 1])],
                    start_bit, bits, width, i + 1)

\* Mutant of assign_bits: the digits are written least significant first.
RECURSIVE ReverseSeq(_)
ReverseSeq(s) == IF s = <<>> THEN <<>> ELSE Append(ReverseSeq(Tail(s)), Head(s))
assign_bits_lsb_first(st, start_bit, value, width) ==
    IF st.raised THEN st
    ELSE AssignLoop(st, start_bit,
                    ReverseSeq(SubSeq(FormatBinary(value, width), 1, width)),
                    width, 0)

assign_bits(st, start_bit, value, width) ==
    IF st.raised THEN st
    ELSE AssignLoop(st, start_bit, FormatBinary(value, width), width, 0)

\* config_bits[pos] = int(bit_dict.get(name, 0))
assign_flag(st, pos, value) ==
    IF st.raised THEN st
    ELSE [st EXCEPT !.bits[pos] = value, !.log = Append(@, <<pos, 1>>)]

\* The assignments of the function body in program order.
Flag(name, pos) == [name |-> name, pos |-> pos, width |-> 1, flag |-> TRUE]
\* Mutant of Field: every assign_bits call starts one index too low.
FieldShifted(name, pos, width) ==
    [name |-> name, pos |-> pos - 1, width |-> width, flag |-> FALSE]
Field(name, pos, width) ==
    [name |-> name, pos |-> pos, width |-> width, flag |-> FALSE]

\* Mutant of CshEnables: the channel numbers run upwards from index 127.
CshEnablesAscending ==
    [i \in 1..8 |-> Flag("_CSH_EN_" \o ToString(i) \o "_", 127 - (i - 1))]

CshEnables ==
    [i \in 1..8 |-> Flag("_CSH_EN_" \o ToString(9 - i) \o "_", 127 - (i - 1))]
PiEnables ==
    [i \in 1..8 |-> Flag("_PI_EN_" \o ToString(9 - i) \o "_", 119 - (i - 1))]

Assignments ==
    CshEnables \o PiEnables \o
    << Field("_PI_DC_CTRL_", 111, 3),
       Field("_PI_CAP_CTRL_", 108, 5),
       Field("_PI_DELAY_CTRL1_", 103, 7),
       Field("_PI_DELAY_CTRL2_", 96, 7),
       Field("_PI_DELAY_CTRL3_", 89, 7),
       Field("_PI_DELAY_CTRL4_", 82, 7),
       Field("_PI_DELAY_CTRL5_", 75, 7),
       Field("_PI_DELAY_CTRL6_", 68, 7),
       Field("_PI_DELAY_CTRL7_", 61, 7),
       Field("_PI_DELAY_CTRL8_", 54, 7),
       Field("_PI_SUM_DELAY_CTRL_", 47, 7),
       Field("_PI_TEST_DELAY_CTRL_", 40, 3),
       Flag("_BPF_SAMP_EN_", 37),
       Flag("_BPF_EN_", 36),
       Flag("_LPF_SAMP_EN_", 35),
       Flag("_LPF_EN_", 34),
       Field("_BGR_OUT_CTRL_", 33, 3),
       Field("_CSH_ICTRL_", 30, 3),
       Field("_PI_ICTRL_", 27, 3),
       Field("_DEMOD_ICTRL_", 24, 3),
       Field("_BUFF_ICTRL_", 21, 3),
       Flag("_SUM_PI_EN_", 18),
       Flag("_DEMOD_ICH_EN_", 17),
       Flag("_DEMOD_QCH_EN_", 16),
       Flag("_LVDS_RES_CTRL_", 15),
       Flag("_BUFF_EN_", 14),
       Flag("_IQ_DIV_EN_", 13),
       Flag("_IQ_DIV_RST_", 12),
       Flag("_CSH_TEST_EN_", 11),
       Flag("_CSH_VCM_EN_", 10),
       Flag("_PI_TEST_EN_", 9),
       Field("_TEST_ADD_", 8, 4),
       Field("_TMUX_SEL_", 4, 4),
       Flag("_SPARE_", 0) >>

\* One statement of the body: a flag assignment or an assign_bits call.
Statement(st, a, d) ==
    IF a.flag THEN assign_flag(st, a.pos, DictGet(d, a.name, 0))
    ELSE assign_bits(st, a.pos, DictGet(d, a.name, 0), a.width)

\* Statements lo..hi of the body in program order, from st on; nothing runs
\* after a raise.  (The range is halved, not peeled, to keep evaluation
\* shallow.)
RECURSIVE RunRange(_, _, _, _)
RunRange(st, d, lo, hi) ==
    IF st.raised THEN st
    ELSE IF lo = hi THEN Statement(st, Assignments[lo], d)
    ELSE RunRange(RunRange(st, d, lo, (lo + hi) \div 2), d,
                  (lo + hi) \div 2 + 1, hi)

RunAssignments(d) == RunRange(Fresh, d, 1, Len(Assignments))

\* Mutant of PackByte: the first bit read becomes the least significant.
RECURSIVE PackByteLsbFirst(_, _, _)
PackByteLsbFirst(bits, byte_index, n) ==
    IF n = 0 THEN 0
    ELSE BitOr(PackByteLsbFirst(bits, byte_index, n - 1),
               Pow2(n - 1)
               * bits[(RegisterBits - 1) - (byte_index * ByteBits + (n - 1))])

\* The inner packing loop: byte_val after bit_in_byte = 0..n-1.
RECURSIVE PackByte(_, _, _)
PackByte(bits, byte_index, n) ==
    IF n = 0 THEN 0
    ELSE BitOr(2 * PackByte(bits, byte_index, n - 1),
               bits[(RegisterBits - 1) - (byte_index * ByteBits + (n - 1))])

\* Mutant of PackBytes: the bytes come out last byte first.
PackBytesReversed(bits) ==
    [k \in 1..RegisterBytes |-> PackByte(bits, RegisterBytes - k, ByteBits)]

PackBytes(bits) ==
    [k \in 1..RegisterBytes |-> PackByte(bits, k - 1, ByteBits)]

Outcome(st) ==
    [raised |-> st.raised, bits |-> st.bits, touched |-> st.log,
     bytes |-> IF st.raised THEN <<>> ELSE PackBytes(st.bits)]

RegisterAssignment(d) == Outcome(RunAssignments(d))

\* ------------------------------------------------------------ the caller
FieldNames == {Assignments[n].name : n \in DOMAIN Assignments}
UnknownKeys == {"_EXTRA_"}
Keys == FieldNames \cup UnknownKeys

\* The statement that reads key (0 for a key the body never reads).
IndexOf(key) ==
    IF key \in FieldNames
    THEN CHOOSE n \in DOMAIN Assignments : Assignments[n].name = key
    ELSE 0
WidthOf(key) == IF key \in FieldNames THEN Assignments[IndexOf(key)].width ELSE 1
MaxOf(key) == Pow2(WidthOf(key)) - 1

\* The key/value pairs of a mapping, without their insertion order.
Items(d) == {d[i] : i \in DOMAIN d}

\* Inputs: the empty mapping; one entry with a value from below zero to
\* twice past the field's range; two entries with in-range values.  The
\* caller's Reinsert produces the other insertion order.
OneEntry ==
    {d \in {<< <<k, v>> >> : k \in Keys, v \in (0 - MaxNeg)..MaxValue} :
        d[1][2] <= 2 * (MaxOf(d[1][1]) + 1)}
TwoEntries(keys, cap) ==
    {d \in {<< <<k1, v1>>, <<k2, v2>> >> :
                k1 \in keys, k2 \in keys, v1 \in 0..cap, v2 \in 0..cap} :
        /\ IndexOf(d[1][1]) < IndexOf(d[2][1])
        /\ d[1][2] <= MaxOf(d[1][1])
        /\ d[2][2] <= MaxOf(d[2][1])}
InputDicts == {<<>>} \cup OneEntry \cup TwoEntries(Keys, MaxPairValue)
TestDicts == TwoEntries({"_TEST_ADD_", "_TMUX_SEL_"}, MaxNibble)

NoCall ==
    [valid |-> FALSE, dict |-> <<>>, items |-> {}, raised |-> FALSE,
     bytes |-> <<>>]

InitWith(dicts) ==
    /\ gui_dict = <<>>
    /\ bit_dict \in dicts
    /\ pc = "idle"
    /\ config_bits = Fresh.bits
    /\ touched = Fresh.log
    /\ config_bytes = <<>>
    /\ last = NoCall
    /\ SerialIdle
    /\ ThreadsIdle

Init == InitWith(InputDicts)
InitTest == InitWith(TestDicts)

\* Data = RegisterAssignment(bit_dict)
Return(r) ==
    /\ pc' = IF r.raised THEN "raised" ELSE "returned"
    /\ config_bits' = r.bits
    /\ touched' = r.touched
    /\ config_bytes' = r.bytes

Call ==
    /\ pc = "idle"
    /\ Return(RegisterAssignment(bit_dict))
    /\ UNCHANGED <<gui_dict, bit_dict, last>>
    /\ UNCHANGED <<serial_vars, thread_vars>>

\* The finished call as the caller remembers it.
Finished ==
    [valid |-> TRUE, dict |-> bit_dict, items |-> Items(bit_dict),
     raised |-> pc = "raised", bytes |-> config_bytes]

\* The caller builds the mapping for its next call: the same entries inserted
\* in another order (entry i is deleted and inserted again) ...
Reinsert(i) ==
    /\ pc \in {"returned", "raised"}
    /\ i \in 1..(Len(bit_dict) - 1)
    /\ bit_dict' = SubSeq(bit_dict, 1, i - 1)
                   \o SubSeq(bit_dict, i + 1, Len(bit_dict)) \o <<bit_dict[i]>>
    /\ pc' = "idle"
    /\ last' = Finished
    /\ UNCHANGED <<gui_dict, config_bits, touched, config_bytes>>
    /\ UNCHANGED <<serial_vars, thread_vars>>

\* ... or the mapping without its last entry.
Pop ==
    /\ pc \in {"returned", "raised"}
    /\ bit_dict # <<>>
    /\ bit_dict' = SubSeq(bit_dict, 1, Len(bit_dict) - 1)
    /\ pc' = "idle"
    /\ last' = Finished
    /\ UNCHANGED <<gui_dict, config_bits, touched, config_bytes>>
    /\ UNCHANGED <<serial_vars, thread_vars>>

Next == Call \/ (\E i \in DOMAIN bit_dict : Reinsert(i)) \/ Pop

Spec == Init /\ [][Next]_vars
SpecTest == InitTest /\ [][Next]_vars

\* ------------------------------------------------------------- An2Bits
\* Raw GUI values: a checkbox gives a bool, a combo box a string (here the
\* sequence of its characters); None is a value int() rejects with TypeError.
PyBool(b) == [t |-> "bool", b |-> b, s |-> <<>>]
PyStr(s) == [t |-> "str", b |-> FALSE, s |-> s]
PyNone == [t |-> "none", b |-> FALSE, s |-> <<>>]

DecDigits == {"0", "1", "2", "3", "4", "5", "6", "7", "8", "9"}
DecDigit(c) ==
    CASE c = "0" -> 0 [] c = "1" -> 1 [] c = "2" -> 2 [] c = "3" -> 3
      [] c = "4" -> 4 [] c = "5" -> 5 [] c = "6" -> 6 [] c = "7" -> 7
      [] c = "8" -> 8 [] c = "9" -> 9

\* int(str) ignores surrounding whitespace ...
RECURSIVE LStrip(_)
LStrip(s) == IF s # <<>> /\ Head(s) = " " THEN LStrip(Tail(s)) ELSE s
RECURSIVE RStrip(_)
RStrip(s) ==
    IF s # <<>> /\ s[Len(s)] = " " THEN RStrip(SubSeq(s, 1, Len(s) - 1)) ELSE s
Strip(s) == RStrip(LStrip(s))

\* ... accepts one leading sign ...
HasSign(s) == s # <<>> /\ Head(s) \in {"+", "-"}
Unsigned(s) == IF HasSign(s) THEN Tail(s) ELSE s

\* ... and then wants decimal digits, with single underscores between digits.
WellFormed(body) ==
    /\ body # <<>>
    /\ \A i \in DOMAIN body :
          \/ body[i] \in DecDigits
          \/ /\ body[i] = "_"
             /\ i > 1
             /\ i < Len(body)
             /\ body[i - 1] \in DecDigits
             /\ body[i + 1] \in DecDigits

\* A mutation of DecimalValue: the first digit is the least significant.
RECURSIVE DecimalValueLsbFirst(_)
DecimalValueLsbFirst(body) ==
    IF body = <<>> THEN 0
    ELSE IF Head(body) = "_" THEN DecimalValueLsbFirst(Tail(body))
    ELSE 10 * DecimalValueLsbFirst(Tail(body)) + DecDigit(Head(body))

RECURSIVE DecimalValue(_)
DecimalValue(body) ==
    IF body = <<>> THEN 0
    ELSE IF body[Len(body)] = "_"
    THEN DecimalValue(SubSeq(body, 1, Len(body) - 1))
    ELSE 10 * DecimalValue(SubSeq(body, 1, Len(body) - 1))
         + DecDigit(body[Len(body)])

IntOfStr(s) ==
    IF ~WellFormed(Unsigned(s)) THEN [ok |-> FALSE, value |-> 0]
    ELSE IF HasSign(s) /\ Head(s) = "-"
    THEN [ok |-> TRUE, value |-> 0 - DecimalValue(Unsigned(s))]
    ELSE [ok |-> TRUE, value |-> DecimalValue(Unsigned(s))]

\* int(value): ok is FALSE where Python raises ValueError or TypeError.
PyInt(raw) ==
    CASE raw.t = "bool" -> [ok |-> TRUE, value |-> IF raw.b THEN 1 ELSE 0]
      [] raw.t = "str" -> IntOfStr(Strip(raw.s))
      [] OTHER -> [ok |-> FALSE, value |-> 0]

\* try: int(gui_dict[key])   except (ValueError, TypeError): 0
Converted(c) == IF c.ok THEN c.value ELSE 0

\* d[key] = value on an insertion-ordered dict.
RECURSIVE DictSet(_, _, _)
DictSet(d, key, value) ==
    IF d = <<>> THEN <<<<key, value>>>>
    ELSE IF Head(d)[1] = key THEN <<<<key, value>>>> \o Tail(d)
    ELSE <<Head(d)>> \o DictSet(Tail(d), key, value)

\* for key in gui_dict: ...
RECURSIVE An2BitsLoop(_, _, _)
An2BitsLoop(gui, i, out) ==
    IF i > Len(gui) THEN out
    ELSE An2BitsLoop(gui, i + 1,
                     DictSet(out, gui[i][1], Converted(PyInt(gui[i][2]))))

An2Bits(gui) == An2BitsLoop(gui, 1, <<>>)

\* ------------------------------------------ the caller of both functions
\* The TRANSFER DATA handler converts the control values of the window and
\* hands the result to RegisterAssignment; between two presses the user may
\* change a control.
Chars == {"0", "1", "7", "-", "+", " ", "_", ".", "x"}
RECURSIVE Strings(_)
Strings(n) ==
    IF n = 0 THEN {<<>>}
    ELSE Strings(n - 1)
         \cup {Append(s, c) : s \in {t \in Strings(n - 1) : Len(t) = n - 1},
                              c \in Chars}
RawValues == {PyBool(TRUE), PyBool(FALSE), PyNone}
             \cup {PyStr(s) : s \in Strings(MaxStrLen)}
EditValues == {PyBool(TRUE), PyBool(FALSE), PyNone, PyStr(<<"7">>),
               PyStr(<<"1", "0">>), PyStr(<<"x">>)}
GuiKeys == {"_CSH_EN_8_", "_PI_DC_CTRL_", "_EXTRA_"}
GuiDicts ==
    {<<>>}
    \cup {<<<<k, v>>>> : k \in GuiKeys, v \in RawValues}
    \cup {<<<<k[1], v1>>, <<k[2], v2>>>> :
             k \in {kk \in GuiKeys \X GuiKeys : kk[1] # kk[2]},
             v1 \in EditValues, v2 \in EditValues}

InitGui ==
    /\ gui_dict \in GuiDicts
    /\ bit_dict = <<>>
    /\ pc = "raw"
    /\ config_bits = Fresh.bits
    /\ touched = Fresh.log
    /\ config_bytes = <<>>
    /\ last = NoCall
    /\ SerialIdle
    /\ ThreadsIdle

\* bit_dict = An2Bits(control_values)
CallAn2Bits ==
    /\ pc = "raw"
    /\ bit_dict' = An2Bits(gui_dict)
    /\ pc' = "idle"
    /\ UNCHANGED <<gui_dict, config_bits, touched, config_bytes, last>>
    /\ UNCHANGED <<serial_vars, thread_vars>>

\* The user changes control i before the next press.
Edit(i, raw) ==
    /\ pc \in {"returned", "raised"}
    /\ gui_dict' = [gui_dict EXCEPT ![i][2] = raw]
    /\ pc' = "raw"
    /\ UNCHANGED <<bit_dict, config_bits, touched, config_bytes, last>>
    /\ UNCHANGED <<serial_vars, thread_vars>>

NextGui ==
    \/ CallAn2Bits
    \/ Call
    \/ \E i \in DOMAIN gui_dict, raw \in EditValues : Edit(i, raw)

SpecGui == InitGui /\ [][NextGui]_vars

\* ------------------------------------- register2arduino: the serial protocol
\* Text is a sequence of characters.  A byte that is not valid UTF-8 is the
\* single character InvalidByte.
TRANSFER_COMPLETE ==
    <<"T", "R", "A", "N", "S", "F", "E", "R", "_",
      "C", "O", "M", "P", "L", "E", "T", "E">>
RESET_COMPLETE ==
    <<"R", "E", "S", "E", "T", "_", "C", "O", "M", "P", "L", "E", "T", "E">>
ERROR == <<"E", "R", "R", "O", "R">>
InvalidByte == "0xFF"

\* A mutation of Contains: the response has to begin with the token.
ContainsAtStart(text, token) ==
    Len(text) >= Len(token) /\ SubSeq(text, 1, Len(token)) = token

\* token in response
Contains(text, token) ==
    \E i \in 1..(Len(text) - Len(token) + 1) :
        SubSeq(text, i, i + Len(token) - 1) = token

\* A mutation of SuccessToken: a reset waits for the token of a transfer.
SuccessTokenOfTransfer(o) == TRANSFER_COMPLETE

SuccessToken(o) ==
    IF o = "transfer" THEN TRANSFER_COMPLETE ELSE RESET_COMPLETE

\* bytes(Data) raises ValueError unless every value is in range(0, 256).
BytesOk(d) == \A i \in DOMAIN d : d[i] \in 0..255

\* A mutation of Frame: the closing delimiter is left out.
FrameUnclosed(o, d) ==
    IF o = "transfer" THEN <<StartDelimiter>> \o d ELSE <<ResetCommand>>

\* b'<' + bytes(Data) + b'>'   and   b'R'
Frame(o, d) ==
    IF o = "transfer" THEN <<StartDelimiter>> \o d \o <<EndDelimiter>>
    ELSE <<ResetCommand>>

\* .decode('utf-8') raises UnicodeDecodeError on an invalid byte.
Utf8Ok(line) == \A i \in DOMAIN line : line[i] # InvalidByte

\* A mutation of Caught: only serial.SerialException has a handler.
CaughtSerialOnly(exc) == exc = "SerialException"

\* except serial.SerialException ... except Exception ...
Caught(exc) == exc \in {"SerialException", "Exception"}

\* A mutation of Leave: after a timeout or an error response the call goes
\* back to writing the frame.
LeaveRetrying(value, how) ==
    IF how \in {"timeout", "error"}
    THEN spc' = "write" /\ UNCHANGED <<result, exit>>
    ELSE result' = value /\ exit' = how /\ spc' = "done"

\* The call ends by a return statement ...
Leave(value, how) ==
    /\ spc' = "done"
    /\ exit' = how
    /\ result' = value

\* ... or by an exception, which one of the two handlers turns into False.
Raise(exc) ==
    IF Caught(exc) THEN Leave("False", exc) ELSE Leave("none", "escaped")

\* time.sleep(0.01) and back to the loop test
Sleep ==
    /\ now' = now + PollInterval
    /\ spc' = "loop"
    /\ UNCHANGED <<result, exit>>

\* A mutation of Decide: a decisive line sets the outcome but the loop goes on.
DecideAndGoOn(r) ==
    IF r = <<>>
    THEN Sleep /\ UNCHANGED <<response, responses>>
    ELSE /\ response' = r
         /\ responses' = Append(responses, r)
         /\ IF Contains(r, SuccessToken(op)) \/ Contains(r, ERROR)
            THEN /\ now' = now + PollInterval
                 /\ spc' = "loop"
                 /\ exit' = IF Contains(r, SuccessToken(op))
                            THEN "complete" ELSE "error"
                 /\ result' = IF Contains(r, SuccessToken(op))
                              THEN "True" ELSE "False"
            ELSE Sleep

\* What the loop body does with the stripped response.
Decide(r) ==
    IF r = <<>>
    THEN Sleep /\ UNCHANGED <<response, responses>>
    ELSE /\ response' = r
         /\ responses' = Append(responses, r)
         /\ IF Contains(r, SuccessToken(op))
            THEN Leave("True", "complete") /\ UNCHANGED now
            ELSE IF Contains(r, ERROR)
            THEN Leave("False", "error") /\ UNCHANGED now
            ELSE Sleep

\* response = ser.readline().decode('utf-8').strip()  and the tests after it
Handle(line) ==
    IF Utf8Ok(line) THEN Decide(Strip(line))
    ELSE Raise("Exception") /\ UNCHANGED <<now, response, responses>>

\* The arguments of a call and the lines the peer may send.
Tokens == {TRANSFER_COMPLETE, RESET_COMPLETE, ERROR}
Lines ==
    Tokens
    \cup {<<"x">> \o k \o <<"x">> : k \in Tokens}
    \cup {<<" ">> \o k \o <<" ">> : k \in Tokens}
    \cup {k \o ERROR : k \in Tokens \ {ERROR}}
    \cup {ERROR \o k : k \in Tokens \ {ERROR}}
    \cup {<<>>, <<" ">>, <<"x">>, <<InvalidByte>>,
          <<"E", "R", "R", " ", "O", "R">>, <<"e", "r", "r", "o", "r">>}
Payloads ==
    {[i \in 1..RegisterBytes |-> 50 + i],
     [i \in 1..RegisterBytes |-> IF i = 1 THEN 256 ELSE 0]}
Timeouts == 0..MaxTimeout

InitSerial == InitWith({<<>>})

\* The input buffer ends in a line whose newline has not arrived.
Unfinished(buf) == IF buf = <<>> THEN FALSE ELSE ~buf[Len(buf)].nl

\* ser.readline() takes the first line out of the input buffer.
Read(p) == [p EXCEPT !.in_buf = Tail(@), !.reads = @ + 1]

\* A mutation of Released: the port stays open when the call ends.
ReleasedNever(p) == p

\* Leaving the  with  block, by a return or by an exception, closes the port.
Released(p) == IF spc' = "done" THEN [p EXCEPT !.is_open = FALSE] ELSE p

\* with serial.Serial(port_name, 115200, timeout=timeout) as ser:
\* a port that is still open cannot be opened a second time.
SerialCall(o, d, t) ==
    /\ spc \in {"idle", "done"}
    /\ op' = o
    /\ Data' = d
    /\ timeout' = t
    /\ prev' = [exit |-> exit, result |-> result]
    /\ now' = 0
    /\ start_time' = 0
    /\ deadline' = 0
    /\ response' = <<>>
    /\ responses' = <<>>
    /\ peer_lines' = MaxLines
    /\ \/ /\ ~ser.is_open
          /\ ser' = [ClosedPort EXCEPT !.is_open = TRUE]
          /\ spc' = "settle" /\ result' = "none" /\ exit' = "none"
       \/ /\ ser' = [ClosedPort EXCEPT !.is_open = ser.is_open]
          /\ Raise("SerialException")
    /\ UNCHANGED <<core_vars, thread_vars>>

serial_transfer_data(d, t) == spc = "idle" /\ SerialCall("transfer", d, t)
serial_reset(t) == spc = "idle" /\ SerialCall("reset", <<>>, t)

\* No retries are built in: the caller invokes the whole operation again.
Reinvoke == spc = "done" /\ SerialCall(op, Data, timeout)

\* A mutation of Settle: the frame is written without clearing the buffers.
SettleWithoutFlush ==
    /\ spc = "settle"
    /\ now' = now + SettleDelay
    /\ spc' = "write"
    /\ UNCHANGED <<op, Data, timeout, start_time, deadline, ser, peer_lines,
                   response, responses, result, exit, prev>>
    /\ UNCHANGED <<core_vars, thread_vars>>

\* time.sleep(0.1); ser.reset_input_buffer(); ser.reset_output_buffer()
Settle ==
    /\ spc = "settle"
    /\ now' = now + SettleDelay
    /\ \/ /\ ser' = [ser EXCEPT !.in_buf = <<>>, !.flushed = TRUE]
          /\ spc' = "write"
          /\ UNCHANGED <<result, exit>>
       \/ Raise("SerialException") /\ ser' = Released(ser)
    /\ UNCHANGED <<op, Data, timeout, start_time, deadline, peer_lines,
                   response, responses, prev>>
    /\ UNCHANGED <<core_vars, thread_vars>>

\* ser.write(data_packet); start_time = time.time()
Write ==
    /\ spc = "write"
    /\ IF op = "transfer" /\ ~BytesOk(Data)
       THEN Raise("Exception") /\ ser' = Released(ser) /\ UNCHANGED start_time
       ELSE \/ /\ ser' = [ser EXCEPT !.written = Append(@, Frame(op, Data))]
               /\ start_time' = now
               /\ spc' = "loop"
               /\ UNCHANGED <<result, exit>>
            \/ /\ Raise("SerialException")
               /\ ser' = Released(ser)
               /\ UNCHANGED start_time
    /\ UNCHANGED <<op, Data, timeout, now, deadline, peer_lines,
                   response, responses, prev>>
    /\ UNCHANGED <<core_vars, thread_vars>>

\* One pass of  while time.time() - start_time < timeout:  with a line ready,
\* with nothing waiting, or entering a readline() that has to wait.
Poll ==
    /\ spc = "loop"
    /\ IF ~(now - start_time < timeout)
       THEN /\ Leave("False", "timeout")
            /\ ser' = Released(ser)
            /\ UNCHANGED <<now, deadline, response, responses>>
       ELSE \/ /\ Raise("SerialException")
               /\ ser' = Released(ser)
               /\ UNCHANGED <<now, deadline, response, responses>>
            \/ /\ ser.in_buf = <<>>
               /\ Sleep
               /\ UNCHANGED <<ser, deadline, response, responses>>
            \/ /\ ser.in_buf # <<>>
               /\ Head(ser.in_buf).nl
               /\ Handle(Head(ser.in_buf).text)
               /\ ser' = Released(Read(ser))
               /\ UNCHANGED deadline
            \/ /\ ser.in_buf # <<>>
               /\ ~Head(ser.in_buf).nl
               /\ spc' = "readline"
               /\ deadline' = now + timeout
               /\ UNCHANGED <<now, ser, response, responses, result, exit>>
    /\ UNCHANGED <<op, Data, timeout, start_time, peer_lines, prev>>
    /\ UNCHANGED <<core_vars, thread_vars>>

\* ser.readline() waits for the end of the line, at most the port's timeout.
ReadlineWait ==
    /\ spc = "readline"
    /\ ~Head(ser.in_buf).nl
    /\ now < deadline
    /\ now' = now + 1
    /\ UNCHANGED <<op, Data, timeout, spc, start_time, deadline, ser, peer_lines,
                   response, responses, result, exit, prev>>
    /\ UNCHANGED <<core_vars, thread_vars>>

\* It returns the line, or what there is of it when the port's timeout is up.
ReadlineReturn ==
    /\ spc = "readline"
    /\ Head(ser.in_buf).nl \/ now >= deadline
    /\ \/ /\ Handle(Head(ser.in_buf).text)
          /\ ser' = Released(Read(ser))
       \/ /\ Raise("SerialException")
          /\ ser' = Released(ser)
          /\ UNCHANGED <<now, response, responses>>
    /\ UNCHANGED <<op, Data, timeout, start_time, deadline, peer_lines, prev>>
    /\ UNCHANGED <<core_vars, thread_vars>>

\* The peer sends a line, or the beginning of one, ...
PeerSend(line, complete) ==
    /\ spc \in {"settle", "write", "loop", "readline"}
    /\ peer_lines > 0
    /\ complete \/ line # <<>>
    /\ ~Unfinished(ser.in_buf)
    /\ ser' = [ser EXCEPT !.in_buf = Append(@, [text |-> line, nl |-> complete])]
    /\ peer_lines' = peer_lines - 1
    /\ UNCHANGED <<op, Data, timeout, spc, now, start_time, deadline,
                   response, responses, result, exit, prev>>
    /\ UNCHANGED <<core_vars, thread_vars>>

\* ... or the newline that ends the line it began.
PeerNewline ==
    /\ spc \in {"settle", "write", "loop", "readline"}
    /\ Unfinished(ser.in_buf)
    /\ ser' = [ser EXCEPT !.in_buf[Len(ser.in_buf)].nl = TRUE]
    /\ UNCHANGED <<op, Data, timeout, spc, now, start_time, deadline, peer_lines,
                   response, responses, result, exit, prev>>
    /\ UNCHANGED <<core_vars, thread_vars>>

NextSerial ==
    \/ \E d \in Payloads, t \in Timeouts : serial_transfer_data(d, t)
    \/ \E t \in Timeouts : serial_reset(t)
    \/ Reinvoke
    \/ Settle
    \/ Write
    \/ Poll
    \/ ReadlineWait
    \/ ReadlineReturn
    \/ \E line \in Lines, complete \in BOOLEAN : PeerSend(line, complete)
    \/ PeerNewline

SpecSerial == InitSerial /\ [][NextSerial]_vars

\* The thread that made the call keeps running and its clock keeps advancing:
\* the next statement of the call is eventually executed.  Nothing is assumed
\* of the peer, which may stay silent, nor of the caller calling again.  Each
\* statement moves the call's position or its clock.
SerialStep == Settle \/ Write \/ Poll \/ ReadlineWait \/ ReadlineReturn
SpecSerialFair == SpecSerial /\ WF_<<spc, now>>(SerialStep)

\* ------------------------------------ complete_gui: events and worker threads
\* The flags are assigned in RUN (lines 113-116), so they are locals of RUN;
\* threaded_serial_operation declares  global serial_in_progress  and
\* threaded_upload declares  global upload_in_progress:  each assigns a
\* module-level name, which is another variable.
SerialEvents == {"TRANSFER DATA", "RESET"}
Events == SerialEvents \cup {"UPLOAD DATA"}

\* The control values of the window when a button is pressed: nothing set, a
\* checkbox ticked, or a field holding a negative number (RegisterAssignment
\* raises ValueError for it and the handler's except clause logs it).
WindowValues ==
    {<<>>,
     <<<<"_CSH_EN_8_", PyBool(TRUE)>>>>,
     <<<<"_PI_DC_CTRL_", PyStr(<<"-", "1">>)>>>>}

\* bit_dict = An2Bits(control_values); Data = RegisterAssignment(bit_dict)
WindowData == [v \in WindowValues |-> RegisterAssignment(An2Bits(v))]

\* save_bits_to_file: one line per bit, each byte most significant bit first.
SavedBits(bytes) ==
    [n \in 1..(Len(bytes) * ByteBits) |->
        (bytes[(n - 1) \div ByteBits + 1]
            \div Pow2((ByteBits - 1) - ((n - 1) % ByteBits))) % 2]

\* reg2ino: the data line and the clock line of main/main.ino are rewritten.
Sketch(bytes, clk) == [data |-> bytes, clk |-> clk]

\* What the handler writes for each of the window's values.
WindowBits == [v \in WindowValues |-> SavedBits(WindowData[v].bytes)]
WindowSketch ==
    [v \in WindowValues |-> Sketch(WindowData[v].bytes, DefaultClock)]

InitThreads == InitWith({<<>>})

\* event, values = window.read()  and the handler of the event up to its
\* guard.  For TRANSFER DATA and UPLOAD DATA: bit_dict = An2Bits(
\* control_values); Data = RegisterAssignment(bit_dict); for UPLOAD DATA
\* reg2ino(Data, clk_freq_khz); save_bits_to_file(Data, "WRITTEN_TO_CHIP.txt").
\* An exception ends the handler in its except clause.
ReadEvent(e, v) ==
    /\ gui_pc = "read"
    /\ event' = e
    /\ IF e = "RESET"
       THEN gui_pc' = "guard" /\ UNCHANGED files
       ELSE IF WindowData[v].raised
       THEN gui_pc' = "read" /\ UNCHANGED files
       ELSE /\ gui_pc' = "guard"
            /\ files' = [chip |-> WindowBits[v],
                         ino |-> IF e = "UPLOAD DATA" THEN WindowSketch[v]
                                                      ELSE files.ino]
    /\ UNCHANGED <<serial_in_progress, global_serial_in_progress,
                   upload_in_progress, global_upload_in_progress, worker,
                   uploader, log, console>>
    /\ UNCHANGED <<core_vars, serial_vars>>

\* if serial_in_progress: log_to_console("Serial operation already in
\* progress, please wait...")   else: ...        and for UPLOAD DATA
\* if upload_in_progress: log_to_console("Upload already in progress, ...")
Guard ==
    /\ gui_pc = "guard"
    /\ IF (IF event = "UPLOAD DATA" THEN upload_in_progress
                                    ELSE serial_in_progress)
       THEN /\ console' = Min(console + 1, MaxConsole)
            /\ gui_pc' = "read"
       ELSE /\ gui_pc' = "start"
            /\ UNCHANGED console
    /\ UNCHANGED <<serial_in_progress, global_serial_in_progress,
                   upload_in_progress, global_upload_in_progress, event,
                   worker, uploader, files, log>>
    /\ UNCHANGED <<core_vars, serial_vars>>

\* A thread object is new each time; the model gives it the first free slot.
FirstFree(slots, t) ==
    slots[t] = "none" /\ \A u \in Workers : u < t => slots[u] # "none"

\* serial_thread = threading.Thread(target=threaded_serial_operation, ...)
\* serial_thread.start()      and for UPLOAD DATA
\* upload_thread = threading.Thread(target=threaded_upload, ...)
\* upload_thread.start()
StartThread(t) ==
    /\ gui_pc = "start"
    /\ IF event = "UPLOAD DATA"
       THEN /\ FirstFree(uploader, t)
            /\ uploader' = [uploader EXCEPT ![t] = "started"]
            /\ UNCHANGED worker
       ELSE /\ FirstFree(worker, t)
            /\ worker' = [worker EXCEPT ![t] = "started"]
            /\ UNCHANGED uploader
    /\ gui_pc' = "read"
    /\ UNCHANGED <<serial_in_progress, global_serial_in_progress,
                   upload_in_progress, global_upload_in_progress, event,
                   files, log, console>>
    /\ UNCHANGED <<core_vars, serial_vars>>

\* How the try block of a worker ends, each with its message on the console:
\* the operation returned True, it returned False, or an exception reached
\* the except clause.
Endings == {"succeeded", "failed", "raised"}

\* global serial_in_progress; serial_in_progress = True
WorkerBegin(t) ==
    /\ worker[t] = "started"
    /\ global_serial_in_progress' = TRUE
    /\ worker' = [worker EXCEPT ![t] = "running"]
    /\ UNCHANGED <<serial_in_progress, upload_in_progress,
                   global_upload_in_progress, event, gui_pc, uploader,
                   files, log, console>>
    /\ UNCHANGED <<core_vars, serial_vars>>

\* try: result = serial_transfer_data(data, port) / serial_reset(port) ...
\* except Exception: ...
WorkerOperate(t) ==
    /\ worker[t] = "running"
    /\ worker' = [worker EXCEPT ![t] = "finally"]
    /\ log' \in Endings
    /\ UNCHANGED <<serial_in_progress, global_serial_in_progress,
                   upload_in_progress, global_upload_in_progress, event,
                   gui_pc, uploader, files, console>>
    /\ UNCHANGED <<core_vars, serial_vars>>

\* A mutation of WorkerEnd: the thread ends without clearing the flag.
WorkerEndKeepsFlag(t) ==
    /\ worker[t] = "finally"
    /\ worker' = [worker EXCEPT ![t] = "none"]
    /\ UNCHANGED <<serial_in_progress, global_serial_in_progress,
                   upload_in_progress, global_upload_in_progress, event,
                   gui_pc, uploader, files, log, console>>
    /\ UNCHANGED <<core_vars, serial_vars>>

\* finally: serial_in_progress = False
WorkerEnd(t) ==
    /\ worker[t] = "finally"
    /\ global_serial_in_progress' = FALSE
    /\ worker' = [worker EXCEPT ![t] = "none"]
    /\ UNCHANGED <<serial_in_progress, upload_in_progress,
                   global_upload_in_progress, event, gui_pc, uploader,
                   files, log, console>>
    /\ UNCHANGED <<core_vars, serial_vars>>

\* global upload_in_progress; upload_in_progress = True
UploaderBegin(t) ==
    /\ uploader[t] = "started"
    /\ global_upload_in_progress' = TRUE
    /\ uploader' = [uploader EXCEPT ![t] = "running"]
    /\ UNCHANGED <<serial_in_progress, global_serial_in_progress,
                   upload_in_progress, event, gui_pc, worker, files,
                   log, console>>
    /\ UNCHANGED <<core_vars, serial_vars>>

\* try: result = upload(file_name, port) ... except Exception: ...
UploaderOperate(t) ==
    /\ uploader[t] = "running"
    /\ uploader' = [uploader EXCEPT ![t] = "finally"]
    /\ log' \in Endings
    /\ UNCHANGED <<serial_in_progress, global_serial_in_progress,
                   upload_in_progress, global_upload_in_progress, event,
                   gui_pc, worker, files, console>>
    /\ UNCHANGED <<core_vars, serial_vars>>

\* finally: upload_in_progress = False
UploaderEnd(t) ==
    /\ uploader[t] = "finally"
    /\ global_upload_in_progress' = FALSE
    /\ uploader' = [uploader EXCEPT ![t] = "none"]
    /\ UNCHANGED <<serial_in_progress, global_serial_in_progress,
                   upload_in_progress, event, gui_pc, worker, files,
                   log, console>>
    /\ UNCHANGED <<core_vars, serial_vars>>

NextThreads ==
    \/ \E e \in Events, v \in WindowValues : ReadEvent(e, v)
    \/ Guard
    \/ \E t \in Workers : StartThread(t)
    \/ \E t \in Workers : WorkerBegin(t)
    \/ \E t \in Workers : WorkerOperate(t)
    \/ \E t \in Workers : WorkerEnd(t)
    \/ \E t \in Workers : UploaderBegin(t)
    \/ \E t \in Workers : UploaderOperate(t)
    \/ \E t \in Workers : UploaderEnd(t)

SpecThreads == InitThreads /\ [][NextThreads]_vars

\* ================================================================ claims
\* Index b lies in the logged range <<pos, n>>: pos, pos-1, ..., pos-n+1.
InRangeOf(b, e) == e[1] - e[2] < b /\ b <= e[1]

\* decode of the specification: unpack the bytes most significant bit first
\* and read a field's bits from its offset downward as an unsigned integer.
UnpackBit(bytes, b) ==
    (bytes[((RegisterBits - 1) - b) \div ByteBits + 1] \div Pow2(b % ByteBits)) % 2
RECURSIVE ReadBits(_, _, _)
ReadBits(bytes, offset, width) ==
    IF width = 0 THEN 0
    ELSE 2 * ReadBits(bytes, offset, width - 1)
         + UnpackBit(bytes, offset - (width - 1))
Decode(bytes, a) == ReadBits(bytes, a.pos, a.width)

InRange(d) == \A i \in DOMAIN d : d[i][2] >= 0 /\ d[i][2] <= MaxOf(d[i][1])
IsBinary(bits) == \A b \in Positions : bits[b] \in {0, 1}
ZeroBytes == [k \in 1..RegisterBytes |-> 0]
CshKey(k) == "_CSH_EN_" \o ToString(k) \o "_"

\* The index ranges of the statements of the body, in program order, and
\* how many of them hold index b.
FieldRanges == [n \in DOMAIN Assignments |->
                   <<Assignments[n].pos, Assignments[n].width>>]
Owners(b) == {n \in DOMAIN FieldRanges : InRangeOf(b, FieldRanges[n])}
ExactCover ==
    /\ \A n \in DOMAIN FieldRanges :
          /\ FieldRanges[n][1] \in Positions
          /\ FieldRanges[n][1] - FieldRanges[n][2] + 1 \in Positions
    /\ \A b \in Positions : Cardinality(Owners(b)) = 1

\* C1: a completed call assigns one index range per named field (pos down to
\* pos - width + 1); the ranges lie in 0..127, are pairwise disjoint and
\* cover every index 0..127: each register bit belongs to exactly one field.
C1_Coverage == pc = "returned" => (touched = FieldRanges /\ ExactCover)
C1_Witness ==
    /\ pc = "returned"
    /\ Len(bit_dict) = 2
    /\ \E b \in Positions : config_bits[b] = 1

\* C2: round trip: when every value of the mapping is in its field's range,
\* decoding the 16 returned bytes gives back the value of every field (0 for
\* an absent field).
C2_RoundTrip ==
    (pc = "returned" /\ InRange(bit_dict)) =>
        \A n \in DOMAIN Assignments :
            Decode(config_bytes, Assignments[n])
              = DictGet(bit_dict, Assignments[n].name, 0)
C2_Witness ==
    /\ pc = "returned"
    /\ InRange(bit_dict)
    /\ \E i \in DOMAIN bit_dict :
          /\ bit_dict[i][2] = 77
          /\ Decode(config_bytes, Assignments[IndexOf(bit_dict[i][1])]) = 77

\* C3: packing order: for a register of bits, output byte i (0..15) is built
\* from register bits 127-8i down to 127-8i-7, the higher index being the
\* more significant bit; bit 127 is the MSB of byte 0, bit 0 the LSB of byte 15.
C3_PackingOrder ==
    (pc = "returned" /\ IsBinary(config_bits)) =>
        /\ Len(config_bytes) = RegisterBytes
        /\ \A i \in 0..(RegisterBytes - 1) :
              config_bytes[i + 1]
                = 128 * config_bits[127 - 8 * i]     + 64 * config_bits[127 - 8 * i - 1]
                + 32 * config_bits[127 - 8 * i - 2]  + 16 * config_bits[127 - 8 * i - 3]
                + 8 * config_bits[127 - 8 * i - 4]   + 4 * config_bits[127 - 8 * i - 5]
                + 2 * config_bits[127 - 8 * i - 6]   + config_bits[127 - 8 * i - 7]
C3_Witness ==
    /\ pc = "returned"
    /\ IsBinary(config_bits)
    /\ config_bits[0] = 1 /\ config_bytes[RegisterBytes] = 1
    /\ config_bits[127] = 1 /\ config_bytes[1] = 128

\* C4 (as claimed): a field given a value above its maximum holds the low
\* `width` bits of the value, v mod 2^width.
C4_LowBitsKept ==
    (pc = "returned" /\ Len(bit_dict) = 1 /\ bit_dict[1][1] \in FieldNames
        /\ bit_dict[1][2] > MaxOf(bit_dict[1][1])) =>
        Decode(config_bytes, Assignments[IndexOf(bit_dict[1][1])])
          = bit_dict[1][2] % Pow2(WidthOf(bit_dict[1][1]))

\* C5 (as claimed): with integer values, in range or not, the call completes
\* without raising and returns exactly 16 values, each in 0..255.
C5_TotalValidPayload ==
    pc # "idle" =>
        /\ pc = "returned"
        /\ Len(config_bytes) = RegisterBytes
        /\ \A i \in DOMAIN config_bytes : config_bytes[i] \in 0..255

\* C6: determinism: a call leaves its input mapping as it was, and a call on
\* a mapping with the same key/value pairs as the previous call's mapping,
\* in whatever insertion order, has the same outcome and the same bytes.
C6_Deterministic ==
    [][(pc = "idle" /\ pc' # "idle") =>
          /\ bit_dict' = bit_dict
          /\ (last.valid /\ last.items = Items(bit_dict)) =>
                /\ (pc' = "raised") = last.raised
                /\ config_bytes' = last.bytes]_vars
C6_Witness ==
    /\ pc = "returned"
    /\ last.valid
    /\ last.items = Items(bit_dict)
    /\ last.dict # bit_dict
    /\ config_bytes = last.bytes
    /\ config_bytes # ZeroBytes

\* The entries that name a field and hold a value other than 0.
Effective(items) == {e \in items : e[1] \in FieldNames /\ e[2] # 0}

\* C7: unknown keys are ignored and absent keys count as 0: a call on a
\* mapping that differs from the previous call's mapping only in entries
\* with an unknown key or with the value 0 returns the same bytes, and the
\* empty mapping yields 16 zero bytes.
C7_UnknownAndAbsent ==
    pc \in {"returned", "raised"} =>
        /\ bit_dict = <<>> => (pc = "returned" /\ config_bytes = ZeroBytes)
        /\ (last.valid /\ Effective(last.items) = Effective(Items(bit_dict))) =>
              /\ (pc = "raised") = last.raised
              /\ config_bytes = last.bytes
C7_Witness ==
    /\ pc = "returned"
    /\ last.valid
    /\ Effective(last.items) = Effective(Items(bit_dict))
    /\ Effective(Items(bit_dict)) # {}
    /\ \E e \in last.items \ Items(bit_dict) : e[1] \in UnknownKeys
    /\ config_bytes = last.bytes

\* C8 (as claimed): {_TEST_ADD_: 5, _TMUX_SEL_: 10} gives a last byte of
\* 0b01011010 = 0x5A, _TEST_ADD_ in its high and _TMUX_SEL_ in its low nibble.
ScenarioC == {<<"_TEST_ADD_", 5>>, <<"_TMUX_SEL_", 10>>}
C8_LastByte5A ==
    (pc = "returned" /\ Items(bit_dict) = ScenarioC) =>
        config_bytes[RegisterBytes] = 5 * 16 + 10

\* C8 (amended): _TEST_ADD_ = a and _TMUX_SEL_ = t, both in range and alone,
\* give byte 15 = (a mod 8) * 32 + t * 2 and byte 14 = a div 8, the other
\* bytes 0; for a = 5, t = 10 byte 15 is 0b10110100 = 0xB4.
C8_LastByteB4 ==
    (pc = "returned" /\ InRange(bit_dict)
        /\ {e[1] : e \in Items(bit_dict)} = {"_TEST_ADD_", "_TMUX_SEL_"}) =>
        LET a == DictGet(bit_dict, "_TEST_ADD_", 0)
            t == DictGet(bit_dict, "_TMUX_SEL_", 0)
        IN /\ config_bytes[RegisterBytes] = (a % 8) * 32 + t * 2
           /\ config_bytes[RegisterBytes - 1] = a \div 8
           /\ \A i \in 1..(RegisterBytes - 2) : config_bytes[i] = 0
           /\ Items(bit_dict) = ScenarioC => config_bytes[RegisterBytes] = 180
C8_Witness ==
    /\ pc = "returned"
    /\ Items(bit_dict) = ScenarioC
    /\ config_bytes[RegisterBytes] = 180

\* C9: _CSH_EN_k_ = 1 alone sets register bit 119+k and nothing else; for
\* k = 8 byte 0 is 0x80 and bytes 1..15 are 0.
C9_CshEnable ==
    \A k \in 1..8 :
        (pc = "returned" /\ bit_dict = << <<CshKey(k), 1>> >>) =>
            /\ config_bits = [b \in Positions |-> IF b = 119 + k THEN 1 ELSE 0]
            /\ k = 8 =>
                  config_bytes = [i \in 1..RegisterBytes |->
                                     IF i = 1 THEN 128 ELSE 0]
C9_Witness ==
    /\ pc = "returned"
    /\ bit_dict = << <<"_CSH_EN_8_", 1>> >>
    /\ config_bytes[1] = 128

\* Place value of a string of decimal digits, most significant first.
AllDigits(s) == s # <<>> /\ \A i \in DOMAIN s : s[i] \in DecDigits
RECURSIVE Pow10(_)
Pow10(n) == IF n = 0 THEN 1 ELSE 10 * Pow10(n - 1)
RECURSIVE PlaceValue(_)
PlaceValue(s) ==
    IF s = <<>> THEN 0
    ELSE DecDigit(Head(s)) * Pow10(Len(s) - 1) + PlaceValue(Tail(s))

\* C10: normalisation: the mapping An2Bits returns has exactly the keys of
\* its input, in the input's order; a boolean True/False has become 1/0, a
\* string of decimal digits has become the integer it denotes, and the value
\* of a key is the one An2Bits computes from that key's raw value alone.
C10_Normalisation ==
    pc # "raw" =>
        /\ Len(bit_dict) = Len(gui_dict)
        /\ \A i \in DOMAIN gui_dict :
              /\ bit_dict[i][1] = gui_dict[i][1]
              /\ gui_dict[i][2].t = "bool" =>
                     bit_dict[i][2] = (IF gui_dict[i][2].b THEN 1 ELSE 0)
              /\ (gui_dict[i][2].t = "str" /\ AllDigits(gui_dict[i][2].s)) =>
                     bit_dict[i][2] = PlaceValue(gui_dict[i][2].s)
              /\ bit_dict[i][2] = An2Bits(<<gui_dict[i]>>)[1][2]
C10_Witness ==
    /\ pc = "returned"
    /\ Len(gui_dict) = 2
    /\ gui_dict[1][2] = PyBool(TRUE)
    /\ gui_dict[2][2] = PyStr(<<"1", "0">>)
    /\ bit_dict[1][2] = 1
    /\ bit_dict[2][2] = 10

\* C11 (as claimed): every value of the mapping An2Bits returns, and so every
\* value the handler hands on to RegisterAssignment, is a non-negative
\* integer: a raw value that does not denote one has become 0.
C11_NonNegative ==
    pc # "raw" => \A i \in DOMAIN bit_dict : bit_dict[i][2] >= 0

\* ------------------------------------------------- the serial protocol
Ended(o) == op = o /\ spc = "done"
Answered == exit \in {"complete", "error", "timeout"}
RECURSIVE Flatten(_)
Flatten(writes) ==
    IF writes = <<>> THEN <<>> ELSE Head(writes) \o Flatten(Tail(writes))
\* The token occurs in the text at offset i.
OccursAt(text, token, i) ==
    /\ i + Len(token) <= Len(text)
    /\ \A k \in 1..Len(token) : text[i + k] = token[k]
Occurs(text, token) == \E i \in 0..Len(text) : OccursAt(text, token, i)

\* C12: wire frames: once the frame of a transfer is written the port has
\* received exactly 18 bytes: 0x3C, the 16 payload bytes in their order,
\* 0x3E; once the frame of a reset is written it has received exactly the
\* byte 0x52; before that, and in a call that fails before writing, nothing.
IsFrameOf(wire, o, payload) ==
    IF o = "transfer"
    THEN /\ Len(wire) = 18
         /\ wire[1] = 60
         /\ \A i \in 1..16 : wire[i + 1] = payload[i]
         /\ wire[18] = 62
    ELSE wire = <<82>>
C12_WireFrames ==
    /\ spc \in {"idle", "settle", "write"} => Flatten(ser.written) = <<>>
    /\ (spc \in {"loop", "readline"} \/ (spc = "done" /\ Answered)) =>
           IsFrameOf(Flatten(ser.written), op, Data)
    /\ spc = "done" =>
           \/ Flatten(ser.written) = <<>>
           \/ IsFrameOf(Flatten(ser.written), op, Data)
C12_Witness ==
    /\ Ended("transfer")
    /\ exit = "complete"
    /\ Len(Flatten(ser.written)) = 18
    /\ Flatten(ser.written)[17] = 66

\* Line k of the lines read is the first one holding the token or "ERROR".
Undecided(lines, token) ==
    \A j \in DOMAIN lines :
        ~Occurs(lines[j], token) /\ ~Occurs(lines[j], ERROR)
FirstDecisive(lines, token, k) ==
    /\ k \in DOMAIN lines
    /\ Occurs(lines[k], token) \/ Occurs(lines[k], ERROR)
    /\ Undecided(SubSeq(lines, 1, k - 1), token)
\* The call read its last line while the timeout had not elapsed.
ReadInTime == now - start_time < timeout
\* The outcome of a call that waits for the token, as claimed: success exactly
\* when the first decisive line holds the token and was read before the
\* timeout elapsed; nothing is read after the first decisive line.
OutcomeAsClaimed(token) ==
    /\ result = "True" <=>
           /\ FirstDecisive(responses, token, Len(responses))
           /\ Occurs(responses[Len(responses)], token)
           /\ ReadInTime
    /\ exit = "error" =>
           /\ FirstDecisive(responses, token, Len(responses))
           /\ ~Occurs(responses[Len(responses)], token)
    /\ exit = "timeout" =>
           /\ Undecided(responses, token)
           /\ ~ReadInTime
    /\ \A k \in DOMAIN responses :
           FirstDecisive(responses, token, k) => k = Len(responses)

\* C13 (as claimed): a transfer reports success exactly when a line holding
\* "TRANSFER_COMPLETE" is read before the timeout elapses and before any line
\* holding "ERROR"; it reports failure when a line holding "ERROR" comes first
\* or the timeout elapses with neither; lines after the first decisive line
\* are not read.
C13_TransferOutcome ==
    (Ended("transfer") /\ Answered) => OutcomeAsClaimed(TRANSFER_COMPLETE)

\* C14 (as claimed): a reset follows the same rules with "RESET_COMPLETE" as
\* its token: success exactly when a line holding it is read before the
\* timeout and before any line holding "ERROR"; a line holding only
\* "TRANSFER_COMPLETE" does not complete a reset, and a line holding only
\* "RESET_COMPLETE" does not complete a transfer.
C14_ResetOutcome ==
    /\ (Ended("reset") /\ Answered) => OutcomeAsClaimed(RESET_COMPLETE)
    /\ (Ended("reset") /\ result = "True") =>
           Occurs(responses[Len(responses)], RESET_COMPLETE)
    /\ (Ended("transfer") /\ result = "True") =>
           Occurs(responses[Len(responses)], TRANSFER_COMPLETE)

\* The step reads a line of text off the port.
ReadsLine ==
    /\ spc \in {"loop", "readline"}
    /\ Len(ser'.in_buf) < Len(ser.in_buf)
    /\ \A i \in DOMAIN Head(ser.in_buf).text :
           Head(ser.in_buf).text[i] # "0xFF"

\* C15: tolerance of diagnostic text: reading a line of text that holds
\* neither the success token nor "ERROR" (an empty or blank line too) never
\* ends the call, however many lines came before it; a line that holds the
\* success token anywhere in it ends the call with success, and one that
\* holds "ERROR" anywhere in it (and not the success token) with failure.
C15_Tolerance ==
    [][ReadsLine =>
          LET line == Head(ser.in_buf).text
              token == IF op = "transfer" THEN TRANSFER_COMPLETE
                       ELSE RESET_COMPLETE
          IN  IF Occurs(line, token)
              THEN spc' = "done" /\ result' = "True"
              ELSE IF Occurs(line, ERROR)
              THEN spc' = "done" /\ result' = "False"
              ELSE spc' = "loop" /\ result' = "none"]_vars
C15_Witness ==
    /\ Ended("reset")
    /\ result = "True"
    /\ responses = <<<<"x">>, <<"x">> \o RESET_COMPLETE \o <<"x">>>>

\* C16 (as claimed): the caller can tell a peer-reported error from a
\* timeout: two calls of which one ended on an "ERROR" line and the other
\* by the timeout did not return the same value.
C16_OutcomesDiffer ==
    (/\ spc = "done"
     /\ {exit, prev.exit} = {"error", "timeout"}) => result # prev.result

\* C17 (as claimed): when the peer sends nothing, the call returns the
\* timed-out result no earlier than the timeout and no later than one
\* polling interval after it, counted from the start of the call.
C17_TimeoutLatency ==
    (/\ spc = "done"
     /\ exit = "timeout"
     /\ peer_lines = MaxLines) =>
        /\ now >= timeout
        /\ now <= timeout + PollInterval

\* C18: no built-in retry: one call writes its frame to the port at most
\* once, and a call that ended by the timeout or on an "ERROR" line has
\* written it exactly once.
C18_NoRetry ==
    /\ Len(ser.written) <= 1
    /\ (spc = "done" /\ exit \in {"timeout", "error"}) => Len(ser.written) = 1
C18_Witness ==
    /\ spc = "done"
    /\ exit = "timeout"
    /\ prev.exit = "error"
    /\ Len(ser.written) = 1

\* C19: protocol-level errors are non-fatal: no exception leaves the call,
\* and a call in which the port could not be opened, a write or a read
\* failed, a response could not be decoded or the payload could not be turned
\* into bytes has returned False.
C19_NonFatal ==
    /\ exit # "escaped"
    /\ spc = "done" => result \in {"True", "False"}
    /\ (spc = "done" /\ ~Answered) => result = "False"
C19_Witness ==
    /\ Ended("transfer")
    /\ exit = "Exception"
    /\ result = "False"
    /\ Data[1] = 256
    /\ prev.exit = "SerialException"

\* ------------------------------------------------- events and workers
\* A serial operation is in flight from the start of its thread to its end.
InFlight == {t \in Workers : worker[t] # "none"}

\* C20 (as claimed): at most one serial operation is in flight: while one
\* started by a TRANSFER DATA or RESET event has not finished, a further
\* such event starts no second one, so two workers never use the port at
\* the same time.
C20_OneInFlight == Cardinality(InFlight) <= 1

\* C21: in every call the buffers are cleared before the frame is written, the
\* frame is written once and before any response is read, and a response is
\* read only after the frame was written.
C21_StepOrder ==
    [][/\ (~ser.flushed /\ ser'.flushed) => (ser.written = <<>> /\ ser.reads = 0)
       /\ (ser'.written # ser.written /\ ser'.written # <<>>)
              => (ser.flushed /\ ser.written = <<>> /\ ser.reads = 0)
       /\ (ser'.reads > ser.reads)
              => (ser.flushed /\ Len(ser.written) = 1
                  /\ IsFrameOf(ser.written[1], op, Data))]_vars

\* A call that cleared the buffers, wrote its frame and then read two lines.
C21_Witness ==
    spc = "done" /\ ser.flushed /\ Len(ser.written) = 1 /\ ser.reads = 2

\* C22: every call that was started ends, whatever the peer does; it ends in
\* one outcome (True on a success line; False on an error line, on a timeout or
\* on a caught exception), and once it has ended nothing is read from or
\* written to the port until the caller makes a new call.
Running == spc \in {"settle", "write", "loop", "readline"}
Outcomes == {"complete", "error", "timeout", "SerialException", "Exception"}
OneOutcome ==
    IF spc = "done"
    THEN /\ exit \in Outcomes
         /\ result = (IF exit = "complete" THEN "True" ELSE "False")
    ELSE exit = "none"
ZeroedAt(d, i) == [d EXCEPT ![i] = <<d[i][1], 0>>]
OutsideBits(key) ==
    {b \in Positions : ~InRangeOf(b, FieldRanges[IndexOf(key)])}
C23_OverflowContained ==
    pc = "returned" =>
        \A i \in DOMAIN bit_dict :
            (bit_dict[i][1] \in FieldNames /\ bit_dict[i][2] >= 0) =>
                \A zero \in {RegisterAssignment(ZeroedAt(bit_dict, i)).bytes} :
                    \A b \in OutsideBits(bit_dict[i][1]) :
                        UnpackBit(config_bytes, b) = UnpackBit(zero, b)

\* C24 (as claimed): when the line that ends a call contains "ERROR", the call
\* returns False, whatever else the line contains.
EndedByLine == spc = "done" /\ exit \in {"complete", "error"}
C24_ErrorNeverSuccess ==
    (EndedByLine /\ Occurs(responses[Len(responses)], ERROR)) =>
        result = "False"

\* C25 (as claimed): whatever the peer sends, a call that wrote its frame
\* returns no later than timeout plus one polling interval after the write.
C25_BoundedWait ==
    (spc = "done" /\ ser.written # <<>>) =>
        now - start_time <= timeout + PollInterval

\* C30: whenever a call has returned (success, error response, timeout, or an
\* exception raised after the port was opened) the port it opened is closed;
\* the port is open only while the call runs, so the next call can open it.
C30_PortReleased ==
    /\ spc \in {"idle", "done"} => ~ser.is_open
    /\ Running => ser.is_open

\* A call has opened the port again after the previous call on it ended by an
\* exception raised while the port was open.
C30_Witness ==
    /\ spc = "settle" /\ ser.is_open
    /\ prev.exit = "Exception"

\* A firmware upload is in flight from the start of its thread to its end.
UploadsInFlight == {t \in Workers : uploader[t] # "none"}

\* C26 (as claimed): at most one firmware upload is in flight: while one
\* started by an UPLOAD DATA event has not finished, a further UPLOAD DATA
\* event starts no second upload thread.
C26_OneUpload == Cardinality(UploadsInFlight) <= 1

\* C27 (as claimed): a serial operation and a firmware upload, which use the
\* same selected port, are never in flight at the same time.
C27_OnePerPort == InFlight = {} \/ UploadsInFlight = {}

\* C28 (as claimed): a TRANSFER DATA or UPLOAD DATA event that arrives while a
\* worker of its kind has its in-progress flag set (the request that is to be
\* rejected) writes nothing: WRITTEN_TO_CHIP.txt and main/main.ino stay as
\* the operation in flight left them.
ToBeRejected(e) ==
    \/ e = "TRANSFER DATA" /\ global_serial_in_progress
    \/ e = "UPLOAD DATA" /\ global_upload_in_progress
NoWorker == \A t \in Workers : worker[t] = "none" /\ uploader[t] = "none"
C29_GuardNeverLocks ==
    /\ [](NoWorker => /\ ~global_serial_in_progress
                      /\ ~global_upload_in_progress
                      /\ ~serial_in_progress
                      /\ ~upload_in_progress)
    /\ [][/\ \A t \in Workers :
               /\ (worker[t] = "finally" /\ worker'[t] = "none")
                      => ~global_serial_in_progress'
               /\ (uploader[t] = "finally" /\ uploader'[t] = "none")
                      => ~global_upload_in_progress'
          /\ (NoWorker /\ gui_pc = "guard") => gui_pc' = "start"
          /\ (NoWorker /\ gui_pc = "start") =>
                 (InFlight \cup UploadsInFlight)' # {}]_vars

\* With no worker left after one that raised, the guard accepted the event.
C29_Witness == NoWorker /\ log = "raised" /\ gui_pc = "start"

====
